---- MODULE Spec2Model ----
(***************************************************************************)
(* A model of the goa runtime error primitives (src/error.go) and of the   *)
(* generated server types pinned by src/http/codegen/server_types_test.go. *)
(*                                                                         *)
(* Part 1 models error.go: error classes, the helper constructors,         *)
(* HTTPError.Meta, MultiError.Status and StackErrors.  A MultiError is a   *)
(* Go slice, so it is modelled as a slice header (backing array, length)   *)
(* over a heap of backing arrays, and append follows the Go runtime: it    *)
(* writes in place when the capacity allows and reallocates otherwise.     *)
(***************************************************************************)
EXTENDS Integers, Sequences, FiniteSets, TLC

VARIABLES
    heap,      \* the backing arrays allocated so far (a sequence of arrays)
    vals,      \* the MultiErrors returned by StackErrors so far, in order
    last,      \* the most recent call: its arguments and its outcome
    input,     \* SpecStatus: the errors a validation pass reports, in order
    pos,       \* SpecStatus: how many of them have been stacked
    acc,       \* SpecStatus: the error built so far (err = StackErrors(err, e))
    status,    \* SpecStatus: the outcome of the last call of acc.Status()
    herr,      \* SpecMeta: the *HTTPError whose Meta method is called
    store,     \* SpecBody: the slices and maps allocated (wire and domain)
    body,      \* SpecBody: the decoded request body handed to the server
    params,    \* SpecBody: the decoded query string and header parameters
    verr,      \* SpecBody: the outcome of the body's Validate function
    payload,   \* SpecBody: the outcome of the body's payload constructor
    trace,     \* SpecBody: what the Validate function did (calls, dereferences)
    design,    \* SpecGen: the service design whose server types are generated
    step,      \* SpecGen: 0 before the method body, then the next field
    gen,       \* SpecGen: the name registry and the artifacts emitted so far
    tested     \* SpecGen: the outcome of the test's comparison

errVars == <<heap, vals, last, input, pos, acc, status, herr>>
bodyVars == <<store, body, params, verr, payload, trace>>
genVars == <<design, step, gen, tested>>
vars == <<errVars, bodyVars, genVars>>

\* SpecBody's variables while the error primitives are exercised
NoBody == [typ |-> "none"]
NoParams == [q |-> "", h |-> 0]
EmptyStore == [slices |-> <<>>, maps |-> <<>>]
NotRun == [run |-> FALSE]
NotBuilt == [built |-> FALSE]

BodyIdle ==
    /\ store = EmptyStore
    /\ body = NoBody
    /\ params = NoParams
    /\ verr = NotRun
    /\ payload = NotBuilt
    /\ trace = <<>>

\* SpecGen's variables while nothing is generated
NoDesign == [method |-> "none"]
NoUnit == [seen |-> {}]
NotTested == [run |-> FALSE]

GenIdle ==
    /\ design = NoDesign
    /\ step = 0
    /\ gen = NoUnit
    /\ tested = NotTested

(***************************************************************************)
(* Bounds of the model.                                                    *)
(***************************************************************************)
MaxVals == 3      \* StackErrors calls in one behaviour of Spec
MaxLen == 3       \* errors reported by one validation pass of SpecStatus

(***************************************************************************)
(* HTTPError and error classes.  Detail is a formatted message that no     *)
(* operation of error.go reads back; it is left out of the record.         *)
(* MetaValues is a Go map: metaNil says whether it is the nil map, meta is *)
(* its set of <<key, value>> entries.                                      *)
(***************************************************************************)
NewErrorClass(code, st) ==
    [http |-> TRUE, code |-> code, status |-> st, metaNil |-> TRUE, meta |-> {}]

ErrInvalidParamType == NewErrorClass("invalid_parameter_type", 400)
ErrMissingParam == NewErrorClass("missing_parameter", 400)
ErrInvalidAttributeType == NewErrorClass("invalid_attribute", 400)
ErrMissingAttribute == NewErrorClass("missing_attribute", 400)
ErrInvalidEnumValue == NewErrorClass("invalid_value", 400)
ErrMissingHeader == NewErrorClass("missing_header", 400)
ErrInvalidFormat == NewErrorClass("invalid_format", 400)
ErrInvalidPattern == NewErrorClass("invalid_pattern", 400)
ErrInvalidRange == NewErrorClass("invalid_range", 400)
ErrInvalidLength == NewErrorClass("invalid_length", 400)
ErrInvalidEncoding == NewErrorClass("invalid_encoding", 400)
ErrInternal == NewErrorClass("internal", 500)

\* The helper constructors: each applies its class to a message.
InvalidParamTypeError == ErrInvalidParamType
MissingParamError == ErrMissingParam
InvalidAttributeTypeError == ErrInvalidAttributeType
\* (variant: the constructor applies the wrong class)
MissingAttributeErrorWrongClass == ErrInternal
MissingAttributeError == ErrMissingAttribute
MissingHeaderError == ErrMissingHeader
InvalidEnumValueError == ErrInvalidEnumValue
InvalidFormatError == ErrInvalidFormat
InvalidPatternError == ErrInvalidPattern
InvalidRangeError == ErrInvalidRange
InvalidLengthError == ErrInvalidLength

Helpers ==
    { InvalidParamTypeError, MissingParamError, InvalidAttributeTypeError,
      MissingAttributeError, MissingHeaderError, InvalidEnumValueError,
      InvalidFormatError, InvalidPatternError, InvalidRangeError,
      InvalidLengthError }

HelperClasses ==
    { ErrInvalidParamType, ErrMissingParam, ErrInvalidAttributeType,
      ErrMissingAttribute, ErrMissingHeader, ErrInvalidEnumValue,
      ErrInvalidFormat, ErrInvalidPattern, ErrInvalidRange, ErrInvalidLength }

\* Errors a client of the package makes: its own classes (NewErrorClass is
\* exported) and an error that is no *HTTPError (errors.New).
NotFoundError == NewErrorClass("not_found", 404)
ConflictError == NewErrorClass("conflict", 409)
UnauthorizedError == NewErrorClass("unauthorized", 401)
PlainError == [http |-> FALSE, code |-> "plain", status |-> 0, metaNil |-> TRUE, meta |-> {}]

(***************************************************************************)
(* Go values of interface type error: nil, one error, or a MultiError      *)
(* (a slice header; arr = 0 is the zero-capacity slice MultiError{}).      *)
(***************************************************************************)
NilV == [kind |-> "nil"]
ErrV(e) == [kind |-> "err", e |-> e]
MultiV(arr, len) == [kind |-> "multi", arr |-> arr, len |-> len]

IsMulti(v) == v.kind = "multi"

Cap(h, v) == IF v.arr = 0 THEN 0 ELSE Len(h[v.arr])

\* The elements a MultiError holds: the first len slots of its array.
Contents(h, v) == IF v.arr = 0 THEN <<>> ELSE SubSeq(h[v.arr], 1, v.len)

(***************************************************************************)
(* append.  The Go runtime grows a slice that is too small to the needed   *)
(* length when that exceeds twice the old capacity and to twice the old    *)
(* capacity otherwise (capacities under 256); for the 16-byte elements of  *)
(* a MultiError every capacity up to 16 is an allocation size class, so no *)
(* rounding applies within MaxStackLen.                                    *)
(***************************************************************************)
MaxStackLen == 6  \* longest MultiError Spec builds (at most 16, see above)

GrowCap(oldCap, newLen) ==
    IF newLen > oldCap + oldCap THEN newLen ELSE oldCap + oldCap

Zeros(n) == [i \in 1..n |-> NilV]

\* A composite literal MultiError{x, ...}: a fresh array of exactly that size.
Literal(h, xs) ==
    IF Len(xs) = 0
    THEN [v |-> MultiV(0, 0), heap |-> h]
    ELSE [v |-> MultiV(Len(h) + 1, Len(xs)), heap |-> Append(h, xs)]

\* append(s, xs...): in place when the capacity allows, else a fresh array.
GoAppend(h, s, xs) ==
    LET newLen == s.len + Len(xs)
    IN  IF newLen <= Cap(h, s)
        THEN IF Len(xs) = 0
             THEN [v |-> s, heap |-> h]
             ELSE [v |-> MultiV(s.arr, newLen),
                   heap |-> [h EXCEPT ![s.arr] =
                                SubSeq(@, 1, s.len) \o xs \o SubSeq(@, newLen + 1, Len(@))]]
        ELSE [v |-> MultiV(Len(h) + 1, newLen),
              heap |-> Append(h, Contents(h, s) \o xs
                                   \o Zeros(GrowCap(Cap(h, s), newLen) - newLen))]

(***************************************************************************)
(* StackErrors(err, err2): the value returned and the heap after the call. *)
(***************************************************************************)
\* (variant: err2 is appended as one element even when it is a MultiError)
StackErrorsNoFlatten(h, err, err2) ==
    IF err = NilV
    THEN IF err2 = NilV THEN Literal(h, <<>>) ELSE Literal(h, <<err2>>)
    ELSE IF err2 = NilV
         THEN IF IsMulti(err) THEN [v |-> err, heap |-> h] ELSE Literal(h, <<err>>)
         ELSE IF IsMulti(err)
              THEN GoAppend(h, err, <<err2>>)
              ELSE LET lit == Literal(h, <<err>>)
                   IN  GoAppend(lit.heap, lit.v, <<err2>>)

StackErrors(h, err, err2) ==
    IF err = NilV
    THEN IF err2 = NilV
         THEN Literal(h, <<>>)
         ELSE IF IsMulti(err2)
              THEN [v |-> err2, heap |-> h]
              ELSE Literal(h, <<err2>>)
    ELSE IF err2 = NilV
         THEN IF IsMulti(err)
              THEN [v |-> err, heap |-> h]
              ELSE Literal(h, <<err>>)
         ELSE IF IsMulti(err)
              THEN IF IsMulti(err2)
                   THEN GoAppend(h, err, Contents(h, err2))
                   ELSE GoAppend(h, err, <<err2>>)
              ELSE LET lit == Literal(h, <<err>>)
                   IN  IF IsMulti(err2)
                       THEN GoAppend(lit.heap, lit.v, Contents(h, err2))
                       ELSE GoAppend(lit.heap, lit.v, <<err2>>)

(***************************************************************************)
(* MultiError.Status over the elements m of the MultiError.                *)
(***************************************************************************)
\* e.(*HTTPError) succeeds
IsHTTPError(x) == x.kind = "err" /\ x.e.http

RECURSIVE StatusLoop(_, _, _)
\* the loop over m[1:], from the 1-based position i, with the local status st
StatusLoop(m, i, st) ==
    IF i > Len(m)
    THEN st
    ELSE IF IsHTTPError(m[i])
         THEN IF m[i].e.status = 500
              THEN 500
              ELSE StatusLoop(m, i + 1, IF m[i].e.status # st THEN 400 ELSE st)
         ELSE 500

\* (variant: the loop over m[1:] is left out)
StatusKeepsFirst(m) ==
    IF Len(m) = 0 THEN 500
    ELSE IF ~IsHTTPError(m[1]) THEN 500 ELSE m[1].e.status

Status(m) ==
    IF Len(m) = 0
    THEN 500
    ELSE IF ~IsHTTPError(m[1])
         THEN 500
         ELSE IF Len(m) = 1
              THEN m[1].e.status
              ELSE StatusLoop(m, 2, m[1].e.status)

(***************************************************************************)
(* HTTPError.Meta.  Keys and values are interface{} values, modelled as a  *)
(* dynamic type and the text fmt prints for them with %v.                  *)
(***************************************************************************)
StrVal(s) == [typ |-> "string", txt |-> s]
IntVal(s) == [typ |-> "int", txt |-> s]

\* fmt.Sprintf("%v", k)
Sprintv(k) == k.txt

MISSING == StrVal("MISSING")

RECURSIVE MetaLoop(_, _, _)
\* the loop of Meta from the 0-based index i; an assignment to an entry of
\* the nil map panics
MetaLoop(e, keyvals, i) ==
    IF i >= Len(keyvals)
    THEN [panic |-> FALSE, e |-> e]
    ELSE LET k == keyvals[i + 1]
             v == IF i + 1 < Len(keyvals) THEN keyvals[i + 2] ELSE MISSING
         IN  IF e.metaNil
             THEN [panic |-> TRUE, e |-> e]
             ELSE MetaLoop([e EXCEPT !.meta =
                               {p \in @ : p[1] # Sprintv(k)} \cup {<<Sprintv(k), v>>}],
                           keyvals, i + 2)

Meta(e, keyvals) == MetaLoop(e, keyvals, 0)

(***************************************************************************)
(* Spec: a client calls StackErrors any number of times.  The arguments    *)
(* are nil, a fresh error, or a MultiError returned by an earlier call.    *)
(***************************************************************************)
ErrPool == {MissingAttributeError, ErrInternal, PlainError}

NoCall == [op |-> "none"]
NotCalled == [called |-> FALSE]

\* the variables of the error primitives while generated code is exercised
ErrIdle ==
    /\ heap = <<>>
    /\ vals = <<>>
    /\ last = NoCall
    /\ input = <<>>
    /\ pos = 0
    /\ acc = NilV
    /\ status = NotCalled
    /\ herr = ErrInternal

Args == {NilV} \cup {ErrV(e) : e \in ErrPool} \cup {vals[i].v : i \in 1..Len(vals)}

\* what an argument contributes to the result: nothing, itself, its elements
Elems(h, v) ==
    IF v = NilV THEN <<>> ELSE IF IsMulti(v) THEN Contents(h, v) ELSE <<v>>

Init ==
    /\ heap = <<>>
    /\ vals = <<>>
    /\ last = NoCall
    /\ input = <<>>
    /\ pos = 0
    /\ acc = NilV
    /\ status = NotCalled
    /\ herr = ErrInternal
    /\ BodyIdle
    /\ GenIdle

CallStackErrors ==
    /\ Len(vals) < MaxVals
    /\ \E err \in Args, err2 \in Args :
          LET r == StackErrors(heap, err, err2)
          IN  /\ Len(Elems(heap, err)) + Len(Elems(heap, err2)) <= MaxStackLen
              /\ heap' = r.heap
              /\ vals' = Append(vals, [v |-> r.v, orig |-> Contents(r.heap, r.v)])
              /\ last' = [op |-> "StackErrors", err |-> err, err2 |-> err2,
                          elems |-> Elems(heap, err), elems2 |-> Elems(heap, err2),
                          r |-> r.v]
    /\ UNCHANGED <<input, pos, acc, status, herr, bodyVars, genVars>>

Next == CallStackErrors

Spec == Init /\ [][Next]_vars

(***************************************************************************)
(* SpecReuse: a client keeps the MultiErrors it got and stacks further     *)
(* errors on any of them.  A slice of length 3 and capacity 4 takes three  *)
(* calls to build and a fourth and fifth value stacked on it share its     *)
(* array, so behaviours of four calls are explored, over two errors that   *)
(* can be told apart.                                                      *)
(***************************************************************************)
MaxReuse == 4     \* StackErrors calls in one behaviour of SpecReuse

ReusePool == {MissingAttributeError, ErrInternal}

ReuseArgs == {NilV} \cup {ErrV(e) : e \in ReusePool} \cup {vals[i].v : i \in 1..Len(vals)}

CallStackErrorsReusing ==
    /\ Len(vals) < MaxReuse
    /\ \E err \in ReuseArgs, err2 \in ReuseArgs :
          LET r == StackErrors(heap, err, err2)
          IN  /\ Len(Elems(heap, err)) + Len(Elems(heap, err2)) <= MaxStackLen
              /\ heap' = r.heap
              /\ vals' = Append(vals, [v |-> r.v, orig |-> Contents(r.heap, r.v)])
              /\ last' = [op |-> "StackErrors", err |-> err, err2 |-> err2,
                          elems |-> Elems(heap, err), elems2 |-> Elems(heap, err2),
                          r |-> r.v]
    /\ UNCHANGED <<input, pos, acc, status, herr, bodyVars, genVars>>

NextReuse == CallStackErrorsReusing

SpecReuse == Init /\ [][NextReuse]_vars

(***************************************************************************)
(* SpecStatus: one validation pass as the package comment describes it: a  *)
(* MultiError "built over time" by err = StackErrors(err, e) for each error *)
(* e found, whose Status() then gives the response status.                 *)
(***************************************************************************)
StatusPool ==
    Helpers \cup {ErrInvalidEncoding, ErrInternal, NotFoundError, ConflictError, PlainError}

Inputs == UNION {[1..n -> StatusPool] : n \in 0..MaxLen}

InitStatus ==
    /\ heap = <<>>
    /\ vals = <<>>
    /\ last = NoCall
    /\ input \in Inputs
    /\ pos = 0
    /\ acc = NilV
    /\ status = NotCalled
    /\ herr = ErrInternal
    /\ BodyIdle
    /\ GenIdle

Report ==
    /\ pos < Len(input)
    /\ LET r == StackErrors(heap, acc, ErrV(input[pos + 1]))
       IN  /\ heap' = r.heap
           /\ acc' = r.v
    /\ pos' = pos + 1
    /\ status' = NotCalled
    /\ UNCHANGED <<vals, last, input, herr, bodyVars, genVars>>

CallStatus ==
    /\ IsMulti(acc)
    /\ ~status.called
    /\ status' = [called |-> TRUE, s |-> Status(Contents(heap, acc))]
    /\ UNCHANGED <<heap, vals, last, input, pos, acc, herr, bodyVars, genVars>>

NextStatus == Report \/ CallStatus

SpecStatus == InitStatus /\ [][NextStatus]_vars

(***************************************************************************)
(* SpecMeta: an error class makes an error and the client calls Meta on it *)
(* with any list of keys and values, any number of times.                  *)
(***************************************************************************)
MaxKeyvals == 3   \* arguments of one Meta call

Classes == HelperClasses \cup {ErrInvalidEncoding, ErrInternal}

\* the interface{} values passed to Meta; "1" and 1 print the same with %v
Anys == {StrVal("a"), StrVal("1"), IntVal("1")}

KeyvalsSet == UNION {[1..n -> Anys] : n \in 0..MaxKeyvals}

InitMeta ==
    /\ heap = <<>>
    /\ vals = <<>>
    /\ last = NoCall
    /\ input = <<>>
    /\ pos = 0
    /\ acc = NilV
    /\ status = NotCalled
    /\ herr \in Classes
    /\ BodyIdle
    /\ GenIdle

CallMeta ==
    /\ \E keyvals \in KeyvalsSet :
          LET r == Meta(herr, keyvals)
          IN  /\ last' = [op |-> "Meta", e |-> herr, keyvals |-> keyvals,
                          panic |-> r.panic, r |-> r.e]
              /\ herr' = r.e
    /\ UNCHANGED <<heap, vals, input, pos, acc, status, bodyVars, genVars>>

NextMeta == CallMeta

SpecMeta == InitMeta /\ [][NextMeta]_vars

(***************************************************************************)
(* Part 2: the server types goa generates for the designs of               *)
(* TestServerTypes, as the test pins them (server_types_test.go): request  *)
(* body types, their Validate functions and their payload constructors.    *)
(*                                                                         *)
(* A pointer field is NilP or Ptr(x).  A slice or map field is a reference *)
(* into store (NilRef for nil), so that a copy and an alias differ.        *)
(***************************************************************************)
MaxArray == 2     \* elements of the array field of a request body

NilP == [nil |-> TRUE]
Ptr(x) == [nil |-> FALSE, val |-> x]
NilRef == 0

Strings == {"patterna", "patternb", "other"}
Floats == {1, 2}

\* regexp.MatchString(pattern, val): the pattern occurs in val
Matches(pattern, val) == val = pattern

(***************************************************************************)
(* The runtime functions generated code calls (package goa: MergeErrors,   *)
(* MissingFieldError, ValidatePattern).  An error value is the sequence of *)
(* the errors it aggregates; NoError, the empty sequence, is the nil       *)
(* error.  MergeErrors keeps nil when both arguments are nil, so that a    *)
(* Validate function returns nil on a body without violations.             *)
(***************************************************************************)
NoError == <<>>

MissingFieldError(name, context) ==
    <<[name |-> "missing_field", field |-> name, context |-> context]>>

InvalidPattern(name, pattern) ==
    <<[name |-> "invalid_pattern", field |-> name, context |-> pattern]>>

ValidatePattern(name, val, pattern) ==
    IF Matches(pattern, val) THEN NoError ELSE InvalidPattern(name, pattern)

MergeErrors(err, other) ==
    IF err = NoError THEN other
    ELSE IF other = NoError THEN err
    ELSE err \o other

(***************************************************************************)
(* Validate functions, statement by statement.                             *)
(***************************************************************************)
\* MixedPayloadInBody: BPayloadRequestBody {Int *int; Bytes []byte}
ValidateBPayloadRequestBody(b) ==
    IF b.Int = NilP
    THEN MergeErrors(NoError, MissingFieldError("int", "body"))
    ELSE NoError

\* err2 := Validate...(x); if err2 != nil { err = goa.MergeErrors(err, err2) }
MergeNested(err, err2) == IF err2 # NoError THEN MergeErrors(err, err2) ELSE err

\* (variant: the missing-field check of object is left out)
ValidateMethodARequestBodyNoObjectCheck(b) ==
    LET e1 == IF b.Array = NilRef
              THEN MergeErrors(NoError, MissingFieldError("array", "body"))
              ELSE NoError
        e3 == IF b.Object # NilP
              THEN MergeNested(e1, ValidateBPayloadRequestBody(b.Object.val))
              ELSE e1
        e4 == IF b.DupObj # NilP
              THEN MergeNested(e3, ValidateBPayloadRequestBody(b.DupObj.val))
              ELSE e3
    IN  e4

\* MixedPayloadInBody: MethodARequestBody {Any; Array; Map; Object; DupObj}
ValidateMethodARequestBody(b) ==
    LET e1 == IF b.Array = NilRef
              THEN MergeErrors(NoError, MissingFieldError("array", "body"))
              ELSE NoError
        e2 == IF b.Object = NilP
              THEN MergeErrors(e1, MissingFieldError("object", "body"))
              ELSE e1
        e3 == IF b.Object # NilP
              THEN MergeNested(e2, ValidateBPayloadRequestBody(b.Object.val))
              ELSE e2
        e4 == IF b.DupObj # NilP
              THEN MergeNested(e3, ValidateBPayloadRequestBody(b.DupObj.val))
              ELSE e3
    IN  e4

\* MultipleMethods: APayloadRequestBody {A *string}
ValidateAPayloadRequestBody(b) ==
    IF b.A # NilP
    THEN MergeErrors(NoError, ValidatePattern("body.a", b.A.val, "patterna"))
    ELSE NoError

\* MultipleMethods: MethodARequestBody {A *string} (the design's method A;
\* MM tells it from the MethodARequestBody of MixedPayloadInBody)
ValidateMethodARequestBodyMM(b) ==
    IF b.A # NilP
    THEN MergeErrors(NoError, ValidatePattern("body.a", b.A.val, "patterna"))
    ELSE NoError

\* (variant: the function returns at its first error)
ValidateMethodBRequestBodyShortCircuit(b) ==
    IF b.A = NilP
    THEN MissingFieldError("a", "body")
    ELSE IF b.C = NilP
         THEN MissingFieldError("c", "body")
         ELSE LET e3 == ValidatePattern("body.a", b.A.val, "patterna")
              IN  IF e3 # NoError
                  THEN e3
                  ELSE IF b.B # NilP /\ ~Matches("patternb", b.B.val)
                       THEN InvalidPattern("body.b", "patternb")
                       ELSE ValidateAPayloadRequestBody(b.C.val)

\* MultipleMethods: MethodBRequestBody {A *string; B *string; C *APayloadRequestBody}
ValidateMethodBRequestBody(b) ==
    LET e1 == IF b.A = NilP
              THEN MergeErrors(NoError, MissingFieldError("a", "body"))
              ELSE NoError
        e2 == IF b.C = NilP
              THEN MergeErrors(e1, MissingFieldError("c", "body"))
              ELSE e1
        e3 == IF b.A # NilP
              THEN MergeErrors(e2, ValidatePattern("body.a", b.A.val, "patterna"))
              ELSE e2
        e4 == IF b.B # NilP
              THEN MergeErrors(e3, ValidatePattern("body.b", b.B.val, "patternb"))
              ELSE e3
        e5 == IF b.C # NilP
              THEN MergeNested(e4, ValidateAPayloadRequestBody(b.C.val))
              ELSE e4
    IN  e5

\* PayloadExtendedValidate: the request body {Body *string}
ValidateMethodQueryStringExtendedValidatePayloadRequestBody(b) ==
    IF b.Body = NilP
    THEN MergeErrors(NoError, MissingFieldError("body", "body"))
    ELSE NoError

(***************************************************************************)
(* What a Validate function does besides computing its aggregate: the      *)
(* pointer fields it dereferences inside a constraint check, as body.A, and *)
(* the nested Validate functions it calls, in program order.  Each event   *)
(* keeps the pointer it acted on; a nested Validate function reads the     *)
(* fields of its argument, so a dereference or a call on NilP panics.      *)
(***************************************************************************)
Deref(field, p) == [op |-> "deref", field |-> field, target |-> p]
Call(validator, field, p) ==
    [op |-> "call", validator |-> validator, field |-> field, target |-> p]

\* ValidateBPayloadRequestBody compares body.Int with nil only
TraceValidateBPayloadRequestBody(b) == <<>>

\* (variant: the nested validator is called for dup_obj without the nil test)
TraceValidateMethodARequestBodyUnguarded(b) ==
    (IF b.Object # NilP
     THEN <<Call("ValidateBPayloadRequestBody", "object", b.Object)>>
              \o TraceValidateBPayloadRequestBody(b.Object.val)
     ELSE <<>>)
    \o <<Call("ValidateBPayloadRequestBody", "dup_obj", b.DupObj)>>

TraceValidateMethodARequestBody(b) ==
    (IF b.Object # NilP
     THEN <<Call("ValidateBPayloadRequestBody", "object", b.Object)>>
              \o TraceValidateBPayloadRequestBody(b.Object.val)
     ELSE <<>>)
    \o (IF b.DupObj # NilP
        THEN <<Call("ValidateBPayloadRequestBody", "dup_obj", b.DupObj)>>
                 \o TraceValidateBPayloadRequestBody(b.DupObj.val)
        ELSE <<>>)

TraceValidateAPayloadRequestBody(b) ==
    IF b.A # NilP THEN <<Deref("a", b.A)>> ELSE <<>>

TraceValidateMethodARequestBodyMM(b) ==
    IF b.A # NilP THEN <<Deref("a", b.A)>> ELSE <<>>

\* (variant: the pattern of a is checked without the nil test)
TraceValidateMethodBRequestBodyUnguarded(b) ==
    <<Deref("a", b.A)>>
    \o (IF b.B # NilP THEN <<Deref("b", b.B)>> ELSE <<>>)
    \o (IF b.C # NilP
        THEN <<Call("ValidateAPayloadRequestBody", "c", b.C)>>
                 \o TraceValidateAPayloadRequestBody(b.C.val)
        ELSE <<>>)

TraceValidateMethodBRequestBody(b) ==
    (IF b.A # NilP THEN <<Deref("a", b.A)>> ELSE <<>>)
    \o (IF b.B # NilP THEN <<Deref("b", b.B)>> ELSE <<>>)
    \o (IF b.C # NilP
        THEN <<Call("ValidateAPayloadRequestBody", "c", b.C)>>
                 \o TraceValidateAPayloadRequestBody(b.C.val)
        ELSE <<>>)

\* the function compares body.Body with nil only
TraceValidateMethodQueryStringExtendedValidatePayloadRequestBody(b) == <<>>

(***************************************************************************)
(* Payload constructors.  Each returns whether it panicked (a nil pointer  *)
(* dereference), the payload, and the store after its allocations.         *)
(***************************************************************************)
Built(v, st) == [panic |-> FALSE, v |-> v, store |-> st]
Panicked(st) == [panic |-> TRUE, v |-> NilP, store |-> st]

\* The nested converters the constructors call.  A field that is required
\* in the design is a value in the payload and is dereferenced; v itself is
\* dereferenced to read its fields.
unmarshalAPayloadRequestBodyToServicemultiplemethodsAPayload(v) ==
    IF v = NilP THEN [panic |-> TRUE, v |-> NilP]
    ELSE [panic |-> FALSE, v |-> Ptr([A |-> v.val.A])]

unmarshalBPayloadRequestBodyToServicemixedpayloadinbodyBPayload(v) ==
    IF v = NilP \/ v.val.Int = NilP THEN [panic |-> TRUE, v |-> NilP]
    ELSE [panic |-> FALSE, v |-> Ptr([Int |-> v.val.Int.val, Bytes |-> v.val.Bytes])]

\* (variant: v.Array = body.Array, the slice is shared)
CopySliceShared(st, ref) == [ref |-> ref, store |-> st]

\* make([]float32, len(src)) and the loop v.Array[i] = val
CopySlice(st, ref) ==
    LET src == IF ref = NilRef THEN <<>> ELSE st.slices[ref]
    IN  [ref |-> Len(st.slices) + 1,
         store |-> [st EXCEPT !.slices = Append(@, [i \in 1..Len(src) |-> src[i]])]]

\* if body.Map != nil { make(map, len) and the loop v.Map[tk] = tv }
CopyMap(st, ref) ==
    IF ref = NilRef
    THEN [ref |-> NilRef, store |-> st]
    ELSE [ref |-> Len(st.maps) + 1,
          store |-> [st EXCEPT !.maps = Append(@, {kv : kv \in st.maps[ref]})]]

\* MixedPayloadInBody
NewMethodAAPayload(st, b) ==
    LET arr == CopySlice(st, b.Array)
        mp == CopyMap(arr.store, b.Map)
        obj == unmarshalBPayloadRequestBodyToServicemixedpayloadinbodyBPayload(b.Object)
        dup == IF b.DupObj # NilP
               THEN unmarshalBPayloadRequestBodyToServicemixedpayloadinbodyBPayload(b.DupObj)
               ELSE [panic |-> FALSE, v |-> NilP]
    IN  IF obj.panic \/ dup.panic
        THEN Panicked(mp.store)
        ELSE Built([Any |-> b.Any, Array |-> arr.ref, Map |-> mp.ref,
                    Object |-> obj.v, DupObj |-> dup.v], mp.store)

\* MultipleMethods, method A
NewMethodAAPayloadMM(st, b) == Built([A |-> b.A], st)

\* (variant: the optional field b is dereferenced like a)
NewMethodBPayloadTypeDerefB(st, b) ==
    IF b.A = NilP \/ b.B = NilP
    THEN Panicked(st)
    ELSE LET c == unmarshalAPayloadRequestBodyToServicemultiplemethodsAPayload(b.C)
         IN  IF c.panic THEN Panicked(st)
             ELSE Built([A |-> b.A.val, B |-> b.B, C |-> c.v], st)

\* MultipleMethods, method B
NewMethodBPayloadType(st, b) ==
    IF b.A = NilP
    THEN Panicked(st)
    ELSE LET c == unmarshalAPayloadRequestBodyToServicemultiplemethodsAPayload(b.C)
         IN  IF c.panic
             THEN Panicked(st)
             ELSE Built([A |-> b.A.val, B |-> b.B, C |-> c.v], st)

\* PayloadExtendedValidate
NewMethodQueryStringExtendedValidatePayloadPayload(st, b, q, h) ==
    IF b.Body = NilP
    THEN Panicked(st)
    ELSE Built([Body |-> b.Body.val, Q |-> q, H |-> h], st)

(***************************************************************************)
(* SpecBody: the server decodes a request body of one of the four body     *)
(* types, with any combination of nil and non-nil fields, and calls the    *)
(* body's Validate function and payload constructor, in either order.      *)
(***************************************************************************)
PtrStrings == {NilP} \cup {Ptr(x) : x \in Strings}

BPayloadRequestBodies ==
    [Int : {NilP, Ptr(1)}, Bytes : {NilP, Ptr(<<7>>)}]

APayloadRequestBodies == [A : PtrStrings]

Slices == UNION {[1..n -> Floats] : n \in 0..MaxArray}
Maps == {{}, {<<1, "x">>}}

\* the store holding the body's array and map, and the body's references
StoreOf(arr, mp) ==
    [slices |-> IF arr = NilP THEN <<>> ELSE <<arr.val>>,
     maps |-> IF mp = NilP THEN <<>> ELSE <<mp.val>>]

RefOf(x) == IF x = NilP THEN NilRef ELSE 1

MixedBodies ==
    [typ : {"MethodARequestBody"},
     Any : {NilP, Ptr("x")},
     Array : {NilP} \cup {Ptr(x) : x \in Slices},
     Map : {NilP} \cup {Ptr(x) : x \in Maps},
     Object : {NilP} \cup {Ptr(x) : x \in BPayloadRequestBodies},
     DupObj : {NilP} \cup {Ptr(x) : x \in BPayloadRequestBodies}]

InitBody ==
    /\ ErrIdle
    /\ GenIdle
    /\ verr = NotRun
    /\ payload = NotBuilt
    /\ trace = <<>>
    /\ \/ /\ body \in [typ : {"MethodBRequestBody"}, A : PtrStrings, B : PtrStrings,
                       C : {NilP} \cup {Ptr(x) : x \in APayloadRequestBodies}]
          /\ store = EmptyStore
          /\ params = NoParams
       \/ /\ body \in [typ : {"MethodARequestBodyMM"}, A : PtrStrings]
          /\ store = EmptyStore
          /\ params = NoParams
       \/ /\ body \in [typ : {"MethodQueryStringExtendedValidatePayloadRequestBody"},
                       Body : PtrStrings]
          /\ store = EmptyStore
          /\ params \in [q : {"q"}, h : {0, 1}]
       \/ /\ \E d \in MixedBodies :
                /\ body = [d EXCEPT !.Array = RefOf(d.Array), !.Map = RefOf(d.Map)]
                /\ store = StoreOf(d.Array, d.Map)
          /\ params = NoParams

Validated(err) == [run |-> TRUE, err |-> err]
Outcome(r) == [built |-> TRUE, panic |-> r.panic, v |-> r.v]

CallValidateMethodARequestBody ==
    /\ body.typ = "MethodARequestBody"
    /\ ~verr.run
    /\ verr' = Validated(ValidateMethodARequestBody(body))
    /\ trace' = TraceValidateMethodARequestBody(body)
    /\ UNCHANGED <<errVars, genVars, store, body, params, payload>>

CallValidateMethodARequestBodyMM ==
    /\ body.typ = "MethodARequestBodyMM"
    /\ ~verr.run
    /\ verr' = Validated(ValidateMethodARequestBodyMM(body))
    /\ trace' = TraceValidateMethodARequestBodyMM(body)
    /\ UNCHANGED <<errVars, genVars, store, body, params, payload>>

CallValidateMethodBRequestBody ==
    /\ body.typ = "MethodBRequestBody"
    /\ ~verr.run
    /\ verr' = Validated(ValidateMethodBRequestBody(body))
    /\ trace' = TraceValidateMethodBRequestBody(body)
    /\ UNCHANGED <<errVars, genVars, store, body, params, payload>>

CallValidateMethodQueryStringExtendedValidatePayloadRequestBody ==
    /\ body.typ = "MethodQueryStringExtendedValidatePayloadRequestBody"
    /\ ~verr.run
    /\ verr' = Validated(ValidateMethodQueryStringExtendedValidatePayloadRequestBody(body))
    /\ trace' = TraceValidateMethodQueryStringExtendedValidatePayloadRequestBody(body)
    /\ UNCHANGED <<errVars, genVars, store, body, params, payload>>

CallNewMethodAAPayload ==
    /\ body.typ = "MethodARequestBody"
    /\ ~payload.built
    /\ LET r == NewMethodAAPayload(store, body)
       IN  /\ payload' = Outcome(r)
           /\ store' = r.store
    /\ UNCHANGED <<errVars, genVars, body, params, verr, trace>>

CallNewMethodAAPayloadMM ==
    /\ body.typ = "MethodARequestBodyMM"
    /\ ~payload.built
    /\ LET r == NewMethodAAPayloadMM(store, body)
       IN  /\ payload' = Outcome(r)
           /\ store' = r.store
    /\ UNCHANGED <<errVars, genVars, body, params, verr, trace>>

CallNewMethodBPayloadType ==
    /\ body.typ = "MethodBRequestBody"
    /\ ~payload.built
    /\ LET r == NewMethodBPayloadType(store, body)
       IN  /\ payload' = Outcome(r)
           /\ store' = r.store
    /\ UNCHANGED <<errVars, genVars, body, params, verr, trace>>

CallNewMethodQueryStringExtendedValidatePayloadPayload ==
    /\ body.typ = "MethodQueryStringExtendedValidatePayloadRequestBody"
    /\ ~payload.built
    /\ LET r == NewMethodQueryStringExtendedValidatePayloadPayload(store, body, params.q, params.h)
       IN  /\ payload' = Outcome(r)
           /\ store' = r.store
    /\ UNCHANGED <<errVars, genVars, body, params, verr, trace>>

(***************************************************************************)
(* After the constructor has returned, the server and the service keep     *)
(* using the body and the payload: either side may assign an element of    *)
(* its array (s[i] = x) or assign or delete an entry of its map            *)
(* (m[k] = x, delete(m, k)).  An assignment goes to the collection the     *)
(* field refers to, whoever else refers to it.                             *)
(***************************************************************************)
MapKeys == {1}
MapVals == {"x", "y"}

\* s[i] = x on the slice at ref
SetElement(st, ref, i, x) == [st EXCEPT !.slices[ref][i] = x]

\* m[k] = x on the map at ref
SetEntry(st, ref, k, x) ==
    [st EXCEPT !.maps[ref] = {kv \in @ : kv[1] # k} \cup {<<k, x>>}]

\* delete(m, k) on the map at ref
DeleteEntry(st, ref, k) == [st EXCEPT !.maps[ref] = {kv \in @ : kv[1] # k}]

Converted ==
    /\ body.typ = "MethodARequestBody"
    /\ payload.built /\ ~payload.panic

AssignBodyArray ==
    /\ Converted
    /\ body.Array # NilRef
    /\ \E i \in 1..Len(store.slices[body.Array]), x \in Floats :
          /\ store.slices[body.Array][i] # x
          /\ store' = SetElement(store, body.Array, i, x)
    /\ UNCHANGED <<errVars, genVars, body, params, verr, payload, trace>>

AssignPayloadArray ==
    /\ Converted
    /\ payload.v.Array # NilRef
    /\ \E i \in 1..Len(store.slices[payload.v.Array]), x \in Floats :
          /\ store.slices[payload.v.Array][i] # x
          /\ store' = SetElement(store, payload.v.Array, i, x)
    /\ UNCHANGED <<errVars, genVars, body, params, verr, payload, trace>>

AssignBodyMap ==
    /\ Converted
    /\ body.Map # NilRef
    /\ \E k \in MapKeys :
          \/ \E x \in MapVals :
                /\ <<k, x>> \notin store.maps[body.Map]
                /\ store' = SetEntry(store, body.Map, k, x)
          \/ /\ \E kv \in store.maps[body.Map] : kv[1] = k
             /\ store' = DeleteEntry(store, body.Map, k)
    /\ UNCHANGED <<errVars, genVars, body, params, verr, payload, trace>>

AssignPayloadMap ==
    /\ Converted
    /\ payload.v.Map # NilRef
    /\ \E k \in MapKeys :
          \/ \E x \in MapVals :
                /\ <<k, x>> \notin store.maps[payload.v.Map]
                /\ store' = SetEntry(store, payload.v.Map, k, x)
          \/ /\ \E kv \in store.maps[payload.v.Map] : kv[1] = k
             /\ store' = DeleteEntry(store, payload.v.Map, k)
    /\ UNCHANGED <<errVars, genVars, body, params, verr, payload, trace>>

NextBody ==
    \/ CallValidateMethodARequestBody
    \/ CallValidateMethodARequestBodyMM
    \/ CallValidateMethodBRequestBody
    \/ CallValidateMethodQueryStringExtendedValidatePayloadRequestBody
    \/ CallNewMethodAAPayload
    \/ CallNewMethodAAPayloadMM
    \/ CallNewMethodBPayloadType
    \/ CallNewMethodQueryStringExtendedValidatePayloadPayload
    \/ AssignBodyArray
    \/ AssignPayloadArray
    \/ AssignBodyMap
    \/ AssignPayloadMap

SpecBody == InitBody /\ [][NextBody]_vars

(***************************************************************************)
(* Part 3: generating the server types of one service (serverType, called  *)
(* by TestServerTypes with a fresh registry of names).  The generator is   *)
(* not part of the sources at hand; it is modelled from the specification  *)
(* of the Name Registry and the Body Shape Synthesizer and from the code   *)
(* the test expects for each of its cases, with which its output is        *)
(* compared.  A design is reduced to the top-level shapes of its methods   *)
(* (a request or a response, with or without a body) and to the references *)
(* to user types met below them, in the order the generator meets them;    *)
(* primitive and collection fields need no lookup.                         *)
(***************************************************************************)
MaxFields == 3    \* user-type references in one design

UserTypes == {"APayload", "BPayload"}
Roles == {"RequestBody", "ResponseBody"}

\* the user types whose attributes carry validations (the pattern of
\* APayload.a, the required int of BPayload)
ValidatedTypes == {"APayload", "BPayload"}

FieldName(i) ==
    IF i = 1 THEN "object" ELSE IF i = 2 THEN "dup_obj" ELSE "field" \o ToString(i)

\* the top-level shape of a method: the side it is on, whether anything is
\* carried in the body, the error and the view it is for (or ""), whether
\* the body's attribute carries validations, and the name of the payload
\* type as it ends the constructor's name
Request(method, hasBody, validated, payloadName) ==
    [method |-> method, side |-> "request", hasBody |-> hasBody, qualifier |-> "",
     view |-> "", validated |-> validated, payload |-> payloadName]

Response(method, hasBody, qualifier, view) ==
    [method |-> method, side |-> "response", hasBody |-> hasBody,
     qualifier |-> qualifier, view |-> view, validated |-> TRUE, payload |-> ""]

Ref(field, type, role) == [field |-> field, type |-> type, role |-> role]

\* the designs of the cases of TestServerTypes; pkg is the name of the
\* service package as it appears inside the names of the converters
MixedPayloadInBodyDSL ==
    [pkg |-> "Servicemixedpayloadinbody",
     methods |-> <<Request("MethodA", TRUE, TRUE, "APayload")>>,
     fields |-> <<Ref("object", "BPayload", "RequestBody"),
                  Ref("dup_obj", "BPayload", "RequestBody")>>]

MultipleMethodsDSL ==
    [pkg |-> "Servicemultiplemethods",
     methods |-> <<Request("MethodA", TRUE, TRUE, "APayload"),
                   Request("MethodB", TRUE, TRUE, "PayloadType")>>,
     fields |-> <<Ref("c", "APayload", "RequestBody")>>]

PayloadExtendedValidateDSL ==
    [pkg |-> "Servicequerystringextendedvalidatepayload",
     methods |-> <<Request("MethodQueryStringExtendedValidatePayload", TRUE, TRUE, "Payload")>>,
     fields |-> <<>>]

ResultTypeValidateDSL ==
    [pkg |-> "Serviceresulttypevalidate",
     methods |-> <<Response("MethodResultTypeValidate", TRUE, "", "")>>,
     fields |-> <<>>]

ResultWithResultCollectionDSL ==
    [pkg |-> "Serviceresultwithresultcollection",
     methods |-> <<Response("MethodResultWithResultCollection", TRUE, "", "")>>,
     fields |-> <<Ref("a", "Resulttype", "ResponseBody"),
                  Ref("x", "RtCollection", "ResponseBody"),
                  Ref("x[*]", "Rt", "ResponseBody")>>]

ResultWithResultViewDSL ==
    [pkg |-> "Serviceresultwithresultview",
     methods |-> <<Response("MethodResultWithResultView", TRUE, "", "Full")>>,
     fields |-> <<Ref("rt", "Rt", "ResponseBody")>>]

EmptyErrorResponseBodyDSL ==
    [pkg |-> "Serviceemptyerrorresponsebody",
     methods |-> <<Response("MethodEmptyErrorResponseBody", FALSE, "", "")>>,
     fields |-> <<>>]

WithErrorCustomPkgDSL ==
    [pkg |-> "Servicewitherrorcustompkg",
     methods |-> <<Response("MethodWithErrorCustomPkg", TRUE, "ErrorName", "")>>,
     fields |-> <<>>]

PayloadBodyCustomNameDSL ==
    [pkg |-> "Servicebodycustomname",
     methods |-> <<Request("MethodBodyCustomName", TRUE, FALSE, "Payload")>>,
     fields |-> <<>>]

PayloadPathCustomNameDSL ==
    [pkg |-> "Servicepathcustomname",
     methods |-> <<Request("MethodPathCustomName", FALSE, FALSE, "Payload")>>,
     fields |-> <<>>]

PayloadQueryCustomNameDSL ==
    [pkg |-> "Servicequerycustomname",
     methods |-> <<Request("MethodQueryCustomName", FALSE, FALSE, "Payload")>>,
     fields |-> <<>>]

PayloadHeaderCustomNameDSL ==
    [pkg |-> "Serviceheadercustomname",
     methods |-> <<Request("MethodHeaderCustomName", FALSE, FALSE, "Payload")>>,
     fields |-> <<>>]

PayloadCookieCustomNameDSL ==
    [pkg |-> "Servicecookiecustomname",
     methods |-> <<Request("MethodCookieCustomName", FALSE, FALSE, "Payload")>>,
     fields |-> <<>>]

\* the declarations of the code expected for each case, in order: types,
\* constructors and Validate functions, the types of the fields that
\* reference a user type, and the converters the constructors call
MixedPayloadInBodyServerTypesFile ==
    [types |-> <<"MethodARequestBody", "BPayloadRequestBody">>,
     constructors |-> <<"NewMethodAAPayload">>,
     validators |-> <<"ValidateMethodARequestBody", "ValidateBPayloadRequestBody">>,
     fields |-> {<<"object", "BPayloadRequestBody">>, <<"dup_obj", "BPayloadRequestBody">>},
     converters |->
         {"unmarshalBPayloadRequestBodyToServicemixedpayloadinbodyBPayload"}]

MultipleMethodsServerTypesFile ==
    [types |-> <<"MethodARequestBody", "MethodBRequestBody", "APayloadRequestBody">>,
     constructors |-> <<"NewMethodAAPayload", "NewMethodBPayloadType">>,
     validators |-> <<"ValidateMethodARequestBody",
         "ValidateMethodBRequestBody",
         "ValidateAPayloadRequestBody">>,
     fields |-> {<<"c", "APayloadRequestBody">>},
     converters |->
         {"unmarshalAPayloadRequestBodyToServicemultiplemethodsAPayload"}]

PayloadExtendedValidateServerTypesFile ==
    [types |-> <<"MethodQueryStringExtendedValidatePayloadRequestBody">>,
     constructors |-> <<"NewMethodQueryStringExtendedValidatePayloadPayload">>,
     validators |-> <<"ValidateMethodQueryStringExtendedValidatePayloadRequestBody">>,
     fields |-> {},
     converters |-> {}]

ResultTypeValidateServerTypesFile ==
    [types |-> <<"MethodResultTypeValidateResponseBody">>,
     constructors |-> <<"NewMethodResultTypeValidateResponseBody">>,
     validators |-> <<>>,
     fields |-> {},
     converters |-> {}]

ResultWithResultCollectionServerTypesFile ==
    [types |-> <<"MethodResultWithResultCollectionResponseBody",
         "ResulttypeResponseBody",
         "RtCollectionResponseBody",
         "RtResponseBody">>,
     constructors |-> <<"NewMethodResultWithResultCollectionResponseBody">>,
     validators |-> <<>>,
     fields |-> {<<"a",
         "ResulttypeResponseBody">>,
         <<"x",
         "RtCollectionResponseBody">>,
         <<"x[*]",
         "RtResponseBody">>},
     converters |->
         {"marshalServiceresultwithresultcollectionResulttypeToResulttypeResponseBody"}]

ResultWithResultViewServerTypesFile ==
    [types |-> <<"MethodResultWithResultViewResponseBodyFull", "RtResponseBody">>,
     constructors |-> <<"NewMethodResultWithResultViewResponseBodyFull">>,
     validators |-> <<>>,
     fields |-> {<<"rt", "RtResponseBody">>},
     converters |->
         {"marshalServiceresultwithresultviewviewsRtViewToRtResponseBody"}]

EmptyServerTypesFile ==
    [types |-> <<>>,
     constructors |-> <<>>,
     validators |-> <<>>,
     fields |-> {},
     converters |-> {}]

WithErrorCustomPkgServerTypesFile ==
    [types |-> <<"MethodWithErrorCustomPkgErrorNameResponseBody">>,
     constructors |-> <<"NewMethodWithErrorCustomPkgErrorNameResponseBody">>,
     validators |-> <<>>,
     fields |-> {},
     converters |-> {}]

BodyCustomNameServerTypesFile ==
    [types |-> <<"MethodBodyCustomNameRequestBody">>,
     constructors |-> <<"NewMethodBodyCustomNamePayload">>,
     validators |-> <<>>,
     fields |-> {},
     converters |-> {}]

PathCustomNameServerTypesFile ==
    [types |-> <<>>,
     constructors |-> <<"NewMethodPathCustomNamePayload">>,
     validators |-> <<>>,
     fields |-> {},
     converters |-> {}]

QueryCustomNameServerTypesFile ==
    [types |-> <<>>,
     constructors |-> <<"NewMethodQueryCustomNamePayload">>,
     validators |-> <<>>,
     fields |-> {},
     converters |-> {}]

HeaderCustomNameServerTypesFile ==
    [types |-> <<>>,
     constructors |-> <<"NewMethodHeaderCustomNamePayload">>,
     validators |-> <<>>,
     fields |-> {},
     converters |-> {}]

CookieCustomNameServerTypesFile ==
    [types |-> <<>>,
     constructors |-> <<"NewMethodCookieCustomNamePayload">>,
     validators |-> <<>>,
     fields |-> {},
     converters |-> {}]

\* the cases of TestServerTypes: a design and the code expected for it
Cases ==
    { <<MixedPayloadInBodyDSL, MixedPayloadInBodyServerTypesFile>>,
      <<MultipleMethodsDSL, MultipleMethodsServerTypesFile>>,
      <<PayloadExtendedValidateDSL, PayloadExtendedValidateServerTypesFile>>,
      <<ResultTypeValidateDSL, ResultTypeValidateServerTypesFile>>,
      <<ResultWithResultCollectionDSL, ResultWithResultCollectionServerTypesFile>>,
      <<ResultWithResultViewDSL, ResultWithResultViewServerTypesFile>>,
      <<EmptyErrorResponseBodyDSL, EmptyServerTypesFile>>,
      <<WithErrorCustomPkgDSL, WithErrorCustomPkgServerTypesFile>>,
      <<PayloadBodyCustomNameDSL, BodyCustomNameServerTypesFile>>,
      <<PayloadPathCustomNameDSL, PathCustomNameServerTypesFile>>,
      <<PayloadQueryCustomNameDSL, QueryCustomNameServerTypesFile>>,
      <<PayloadHeaderCustomNameDSL, HeaderCustomNameServerTypesFile>>,
      <<PayloadCookieCustomNameDSL, CookieCustomNameServerTypesFile>> }

\* the designs generated: those of the test and, for a method with a body
\* on either side, every list of up to MaxFields references to the user
\* types in either role
Designs ==
    {c[1] : c \in Cases}
    \cup UNION {[pkg : {"Servicemixedpayloadinbody"},
                 methods : {<<Request("MethodA", TRUE, TRUE, "APayload")>>,
                            <<Response("MethodA", TRUE, "", "")>>},
                 fields : {[i \in 1..n |-> Ref(FieldName(i), r[i][1], r[i][2])] :
                              r \in [1..n -> UserTypes \X Roles]}] : n \in 0..MaxFields}

\* make(map[string]struct{}): the names already taken when a unit starts
\* (variant: the map of an earlier unit is passed on)
SeenFromEarlierUnit == {"BPayloadRequestBody"}
FreshSeen == {}

NewUnit ==
    [seen |-> FreshSeen, names |-> {}, types |-> <<>>, constructors |-> <<>>,
     validators |-> <<>>, converters |-> <<>>, fields |-> {}, lookups |-> <<>>]

\* the structural key of a reference: the user type and the role
Key(f) == <<f.type, f.role>>

\* <ReferencedUserTypeName><Role>
Candidate(key) == key[1] \o key[2]

\* reserve(candidateName): the candidate, or the candidate with a suffix
\* when the name is taken
Reserve(seen, candidate) ==
    IF candidate \notin seen THEN candidate ELSE candidate \o "2"

\* lookupOrReserve(structuralKey)
LookupOrReserve(g, key) ==
    IF \E p \in g.names : p.key = key
    THEN [name |-> (CHOOSE p \in g.names : p.key = key).name,
          alreadyExists |-> TRUE]
    ELSE [name |-> Reserve(g.seen, Candidate(key)), alreadyExists |-> FALSE]

\* the role of the top-level shape of a method
RoleOf(m) == IF m.side = "request" THEN "RequestBody" ELSE "ResponseBody"

\* <MethodName><Role>, <MethodName><ErrorIdentifier><Role>, and the view
\* of a viewed result after it
TypeName(m) == m.method \o m.qualifier \o RoleOf(m) \o m.view

\* a request's constructor builds the payload, a response's builds the body
ConstructorName(m, name) ==
    IF m.side = "request" THEN "New" \o m.method \o m.payload ELSE "New" \o name

\* validation functions are generated for request bodies whose attribute
\* carries validations; the server does not validate what it sends
NeedsValidator(role, validated) == role = "RequestBody" /\ validated

\* a design with a viewed result converts from the types of the views
\* package of the service
Viewed(d) == \E i \in 1..Len(d.methods) : d.methods[i].view # ""

\* the domain type of a referenced user type, with its package, as the
\* name of a converter spells it
DomainName(d, type) ==
    IF Viewed(d) THEN d.pkg \o "views" \o type \o "View" ELSE d.pkg \o type

\* the converter of a nested type: unmarshal<body type>To<domain type> for
\* a request, marshal<domain type>To<body type> for a response
ConverterName(d, f, name) ==
    IF f.role = "RequestBody"
    THEN "unmarshal" \o name \o "To" \o DomainName(d, f.type)
    ELSE "marshal" \o DomainName(d, f.type) \o "To" \o name

\* the top-level shape of a method: without a body, a request has its
\* constructor only (the payload is built from the parameters) and a
\* response has nothing; with a body, the type, its constructor and, when
\* needed, its validator
GenerateMethodBody(g, m) ==
    IF ~m.hasBody
    THEN IF m.side = "request"
         THEN [g EXCEPT !.constructors = Append(@, ConstructorName(m, ""))]
         ELSE g
    ELSE LET name == Reserve(g.seen, TypeName(m))
         IN  [g EXCEPT !.seen = @ \cup {name},
                       !.types = Append(@, name),
                       !.constructors = Append(@, ConstructorName(m, name)),
                       !.validators = IF NeedsValidator(RoleOf(m), m.validated)
                                      THEN Append(@, "Validate" \o name)
                                      ELSE @]

\* one reference to a user type: the record type, its converter and, when
\* needed, its validator are emitted unless the key is already registered
GenerateField(g, d, f) ==
    LET r == LookupOrReserve(g, Key(f))
        g1 == [g EXCEPT !.fields = @ \cup {<<f.field, r.name>>},
                        !.lookups = Append(@, [key |-> Key(f), name |-> r.name,
                                               alreadyExists |-> r.alreadyExists])]
    IN  IF r.alreadyExists
        THEN g1
        ELSE [g1 EXCEPT !.seen = @ \cup {r.name},
                        !.names = @ \cup {[key |-> Key(f), name |-> r.name]},
                        !.types = Append(@, r.name),
                        !.validators = IF NeedsValidator(f.role, f.type \in ValidatedTypes)
                                       THEN Append(@, "Validate" \o r.name)
                                       ELSE @,
                        !.converters = Append(@, ConverterName(d, f, r.name))]

\* the declarations written for the unit
Generated(g) ==
    [types |-> g.types, constructors |-> g.constructors,
     validators |-> g.validators, fields |-> g.fields]

\* the expected code is the code generated: the same declarations, and the
\* converters its constructors call are converters of the unit by name
SameCode(g, file) ==
    /\ Generated(g) = [types |-> file.types, constructors |-> file.constructors,
                       validators |-> file.validators, fields |-> file.fields]
    /\ file.converters \subseteq {g.converters[i] : i \in 1..Len(g.converters)}

InitGen ==
    /\ ErrIdle
    /\ BodyIdle
    /\ design \in Designs
    /\ step = 0
    /\ gen = NewUnit
    /\ tested = NotTested

\* the top-level shapes of the methods come first, in order
GenerateMethod ==
    /\ step < Len(design.methods)
    /\ gen' = GenerateMethodBody(gen, design.methods[step + 1])
    /\ step' = step + 1
    /\ UNCHANGED <<errVars, bodyVars, design, tested>>

\* then the references to user types
ProcessField ==
    /\ step >= Len(design.methods)
    /\ step < Len(design.methods) + Len(design.fields)
    /\ gen' = GenerateField(gen, design, design.fields[step - Len(design.methods) + 1])
    /\ step' = step + 1
    /\ UNCHANGED <<errVars, bodyVars, design, tested>>

\* assert.Equal(t, c.Code, code) for the case of the design
TestServerTypes ==
    /\ step = Len(design.methods) + Len(design.fields)
    /\ ~tested.run
    /\ \E c \in Cases :
          /\ design = c[1]
          /\ tested' = [run |-> TRUE, pass |-> SameCode(gen, c[2])]
    /\ UNCHANGED <<errVars, bodyVars, design, step, gen>>

NextGen == GenerateMethod \/ ProcessField \/ TestServerTypes

SpecGen == InitGen /\ [][NextGen]_vars

(***************************************************************************)
(* Properties of MultiError.Status (SpecStatus).                           *)
(***************************************************************************)
\* the MultiError Status was called on
StatusArg == Contents(heap, acc)

HTTPStatuses(m) == [i \in 1..Len(m) |-> m[i].e.status]

\* C1: a non-empty MultiError with an element, at any position, that is no
\* *HTTPError or has Status 500 has Status() = 500.
C1_AnyInternalGives500 ==
    status.called =>
        ((\E i \in 1..Len(StatusArg) :
              ~IsHTTPError(StatusArg[i]) \/ StatusArg[i].e.status = 500)
            => status.s = 500)

AllHTTPNo500(m) ==
    \A i \in 1..Len(m) : IsHTTPError(m[i]) /\ m[i].e.status # 500

\* C2: when every element is a *HTTPError and none has status 500, Status()
\* is the common status if all agree (one element: its own status) and 400
\* if two elements differ.
C2_CommonStatusOr400 ==
    (status.called /\ AllHTTPNo500(StatusArg)) =>
        LET m == StatusArg
        IN  /\ (\A i \in 1..Len(m) : m[i].e.status = m[1].e.status)
                  => status.s = m[1].e.status
            /\ (\E i, j \in 1..Len(m) : m[i].e.status # m[j].e.status)
                  => status.s = 400

\* 404 then 409 was collapsed to 400
C2_Witness ==
    /\ status.called
    /\ HTTPStatuses(StatusArg) = <<404, 409>>
    /\ AllHTTPNo500(StatusArg)
    /\ status.s = 400

\* the MultiErrors that hold the elements of m in another order
Reorderings(m) ==
    {[i \in 1..Len(m) |-> m[f[i]]] : f \in Permutations(1..Len(m))}

\* C13: Status() gives the same status on every reordering of the elements
\* of the MultiError it was called on.
C13_OrderIndependent ==
    status.called => \A p \in Reorderings(StatusArg) : Status(p) = status.s

(***************************************************************************)
(* Properties of StackErrors (Spec).                                       *)
(***************************************************************************)
\* C3: StackErrors returns the flat, order-preserving concatenation of what
\* its arguments contribute, of the summed length, and no MultiError
\* returned holds a MultiError as an element.
C3_FlatConcatenation ==
    /\ last.op = "StackErrors" =>
          /\ IsMulti(last.r)
          /\ Contents(heap, last.r) = last.elems \o last.elems2
          /\ last.r.len = Len(last.elems) + Len(last.elems2)
    /\ \A i \in 1..Len(vals) :
          \A j \in 1..vals[i].v.len : ~IsMulti(Contents(heap, vals[i].v)[j])

\* two MultiErrors of two or more elements each were stacked
C3_Witness ==
    /\ last.op = "StackErrors"
    /\ IsMulti(last.err) /\ IsMulti(last.err2)
    /\ Len(last.elems) >= 2 /\ Len(last.elems2) >= 2
    /\ last.r.len = Len(last.elems) + Len(last.elems2)

\* nil, a single error that is no MultiError, or a non-empty MultiError
PlainArg(v) == v = NilV \/ ~IsMulti(v) \/ v.len > 0

\* C4: StackErrors never returns an empty MultiError when each argument is
\* nil, a single error or a non-empty MultiError.
C4_NeverEmpty ==
    (last.op = "StackErrors" /\ PlainArg(last.err) /\ PlainArg(last.err2))
        => last.r.len > 0

\* C14: every MultiError StackErrors has returned keeps the length and the
\* elements it had when it was returned, whatever is stacked later (the
\* arguments of a call are nil, single errors or such earlier results).
C14_EarlierValuesKept ==
    \A i \in 1..Len(vals) :
        /\ vals[i].v.len = Len(vals[i].orig)
        /\ Contents(heap, vals[i].v) = vals[i].orig

(***************************************************************************)
(* Properties of HTTPError.Meta (SpecMeta).                                *)
(***************************************************************************)
\* the 0-based indices of the keys of a Meta call
KeyIndices(keyvals) == {i \in 0..(Len(keyvals) - 1) : i % 2 = 0}

\* the value Meta binds to the key at index i
ValueAt(keyvals, i) == IF i + 1 < Len(keyvals) THEN keyvals[i + 2] ELSE MISSING

\* C5: Meta on an error made by an error class completes, returns the error
\* and leaves each key's text mapped to its value (the last one for a
\* repeated key, "MISSING" for a dangling key).
C5_MetaCompletes ==
    last.op = "Meta" =>
        /\ ~last.panic
        /\ herr = last.r
        /\ \A i \in KeyIndices(last.keyvals) :
              (\A j \in KeyIndices(last.keyvals) :
                   (j > i) => Sprintv(last.keyvals[j + 1]) # Sprintv(last.keyvals[i + 1]))
                => <<Sprintv(last.keyvals[i + 1]), ValueAt(last.keyvals, i)>> \in last.r.meta

(***************************************************************************)
(* Properties of the helper constructors (SpecStatus).                     *)
(***************************************************************************)
HelperClassPairs ==
    { <<InvalidParamTypeError, ErrInvalidParamType>>,
      <<MissingParamError, ErrMissingParam>>,
      <<InvalidAttributeTypeError, ErrInvalidAttributeType>>,
      <<MissingAttributeError, ErrMissingAttribute>>,
      <<MissingHeaderError, ErrMissingHeader>>,
      <<InvalidEnumValueError, ErrInvalidEnumValue>>,
      <<InvalidFormatError, ErrInvalidFormat>>,
      <<InvalidPatternError, ErrInvalidPattern>>,
      <<InvalidRangeError, ErrInvalidRange>>,
      <<InvalidLengthError, ErrInvalidLength>> }

OnlyHelpers(m) == \A i \in 1..Len(m) : IsHTTPError(m[i]) /\ m[i].e \in Helpers

\* C6: every helper constructor returns a *HTTPError with the Code and the
\* Status of its class, which is 400; so a MultiError stacked from helper
\* errors only has Status() = 400, and a Status() of 500 needs an element
\* that has status 500 or is no *HTTPError.
C6_HelpersGive400 ==
    /\ \A p \in HelperClassPairs :
          /\ p[1].http
          /\ p[1].code = p[2].code
          /\ p[1].status = p[2].status
          /\ p[1].status = 400
    /\ (status.called /\ OnlyHelpers(StatusArg)) => status.s = 400
    /\ (status.called /\ status.s = 500) =>
          \E i \in 1..Len(StatusArg) :
              ~IsHTTPError(StatusArg[i]) \/ StatusArg[i].e.status = 500

\* three helper errors of three classes were stacked and gave 400
C6_Witness ==
    /\ status.called
    /\ Len(StatusArg) = 3
    /\ OnlyHelpers(StatusArg)
    /\ Cardinality({StatusArg[i].e.code : i \in 1..3}) = 3
    /\ status.s = 400

(***************************************************************************)
(* Properties of the generated Validate functions and constructors         *)
(* (SpecBody).                                                             *)
(***************************************************************************)
\* the positions of the missing-field errors of an aggregate
MissingAt(err) == {i \in 1..Len(err) : err[i].name = "missing_field"}

\* the wire names of the required fields of the body's record type
RequiredFields(b) ==
    IF b.typ = "MethodBRequestBody" THEN {"a", "c"}
    ELSE IF b.typ = "MethodARequestBody" THEN {"array", "object"}
    ELSE IF b.typ = "MethodQueryStringExtendedValidatePayloadRequestBody" THEN {"body"}
    ELSE {}

\* those of them that are absent from the body
AbsentFields(b) ==
    IF b.typ = "MethodBRequestBody"
    THEN {f \in {"a"} : b.A = NilP} \cup {f \in {"c"} : b.C = NilP}
    ELSE IF b.typ = "MethodARequestBody"
    THEN {f \in {"array"} : b.Array = NilRef} \cup {f \in {"object"} : b.Object = NilP}
    ELSE IF b.typ = "MethodQueryStringExtendedValidatePayloadRequestBody"
    THEN {f \in {"body"} : b.Body = NilP}
    ELSE {}

\* the present nested records of a MixedPayloadInBody body that lack their
\* own required field int
NestedLackingInt(b) ==
    IF b.typ = "MethodARequestBody"
    THEN {f \in {"object"} : b.Object # NilP /\ b.Object.val.Int = NilP}
         \cup {f \in {"dup_obj"} : b.DupObj # NilP /\ b.DupObj.val.Int = NilP}
    ELSE {}

RecordWithRequired(b) == b.typ \in {"MethodBRequestBody", "MethodARequestBody"}

\* C7 as stated: with k of the record's required fields absent the aggregate
\* holds exactly k missing-field errors, one per absent field, each naming
\* a distinct field.
C7_ExactlyKMissing ==
    (verr.run /\ RecordWithRequired(body)) =>
        /\ Cardinality(MissingAt(verr.err)) = Cardinality(AbsentFields(body))
        /\ {verr.err[i].field : i \in MissingAt(verr.err)} = AbsentFields(body)
        /\ \A i, j \in MissingAt(verr.err) :
              verr.err[i].field = verr.err[j].field => i = j

\* C7 amended: the aggregate holds exactly one missing-field error for each
\* absent required field of the record itself, whatever else fails, and
\* besides them only the missing-field errors ("int") of the nested
\* validator, one for each present nested record without its int.
C7_OwnMissingNoShortCircuit ==
    (verr.run /\ RecordWithRequired(body)) =>
        LET own == {i \in MissingAt(verr.err) : verr.err[i].field \in RequiredFields(body)}
            nested == MissingAt(verr.err) \ own
        IN  /\ Cardinality(own) = Cardinality(AbsentFields(body))
            /\ {verr.err[i].field : i \in own} = AbsentFields(body)
            /\ \A i \in nested : verr.err[i].field = "int"
            /\ Cardinality(nested) = Cardinality(NestedLackingInt(body))

\* a and c both absent while b violates its pattern: two missing-field
\* errors and the pattern error in one aggregate
C7_Witness ==
    /\ verr.run
    /\ body.typ = "MethodBRequestBody"
    /\ body.A = NilP /\ body.C = NilP /\ body.B = Ptr("other")
    /\ Cardinality(MissingAt(verr.err)) = 2
    /\ Len(verr.err) = 3

\* the fields the body's constructor dereferences or passes unguarded to a
\* nested converter are non-nil
DereferencedPresent(b) ==
    IF b.typ = "MethodBRequestBody" THEN b.A # NilP /\ b.C # NilP
    ELSE IF b.typ = "MethodARequestBody" THEN b.Object # NilP
    ELSE IF b.typ = "MethodQueryStringExtendedValidatePayloadRequestBody" THEN b.Body # NilP
    ELSE TRUE

\* C8: on a body its Validate function accepts, every field the constructor
\* dereferences or hands unguarded to a nested converter is non-nil and the
\* constructor completes.
C8_ValidatedBodyConverts ==
    (verr.run /\ verr.err = NoError) =>
        /\ DereferencedPresent(body)
        /\ payload.built => ~payload.panic

\* an accepted MixedPayloadInBody body with both nested records was built
C8_Witness ==
    /\ verr.run /\ verr.err = NoError
    /\ body.typ = "MethodARequestBody"
    /\ body.Object # NilP /\ body.DupObj # NilP
    /\ payload.built /\ ~payload.panic

\* C9 as stated: the constructors complete on every body value.
C9_ConstructorsTotal == payload.built => ~payload.panic

\* every required field is present, in the body and in each nested record
RequiredPresent(b) ==
    /\ DereferencedPresent(b)
    /\ b.typ = "MethodARequestBody" =>
          /\ b.Object.val.Int # NilP
          /\ b.DupObj # NilP => b.DupObj.val.Int # NilP

\* C9 amended: the constructors complete on every body whose required
\* fields are present, validated or not and whatever the other fields are;
\* NewMethodBPayloadType panics when body.A is nil, and
\* NewMethodQueryStringExtendedValidatePayloadPayload when body.Body is nil.
C9_TotalWhenRequiredPresent ==
    payload.built =>
        /\ RequiredPresent(body) => ~payload.panic
        /\ (body.typ = "MethodBRequestBody" /\ body.A = NilP) => payload.panic
        /\ (body.typ = "MethodQueryStringExtendedValidatePayloadRequestBody"
               /\ body.Body = NilP) => payload.panic

\* a body that was never validated and violates its pattern was converted
C9_Witness ==
    /\ payload.built /\ ~payload.panic
    /\ ~verr.run
    /\ body.typ = "MethodBRequestBody"
    /\ body.A = Ptr("other") /\ body.B = NilP

(***************************************************************************)
(* Properties of nested validation (SpecBody).                             *)
(***************************************************************************)
\* the record-valued fields of the body's type: wire name, pointer, whether
\* the design requires the field, and the Validate function of its type
NestedFields(b) ==
    IF b.typ = "MethodARequestBody"
    THEN {[field |-> "object", p |-> b.Object, required |-> TRUE,
           validator |-> "ValidateBPayloadRequestBody"],
          [field |-> "dup_obj", p |-> b.DupObj, required |-> FALSE,
           validator |-> "ValidateBPayloadRequestBody"]}
    ELSE IF b.typ = "MethodBRequestBody"
    THEN {[field |-> "c", p |-> b.C, required |-> TRUE,
           validator |-> "ValidateAPayloadRequestBody"]}
    ELSE {}

\* the positions of the calls of a nested Validate function for a field
CallsFor(tr, field) == {i \in 1..Len(tr) : tr[i].op = "call" /\ tr[i].field = field}

\* the errors the nested Validate function reports on a record
NestedErrors(validator, r) ==
    IF validator = "ValidateBPayloadRequestBody"
    THEN ValidateBPayloadRequestBody(r)
    ELSE ValidateAPayloadRequestBody(r)

\* what a record-valued field adds to the aggregate
Contribution(f) ==
    IF f.p = NilP
    THEN IF f.required THEN MissingFieldError(f.field, "body") ELSE NoError
    ELSE NestedErrors(f.validator, f.p.val)

\* the errors of err that are about field or come from its nested record
ErrorsAbout(err, names) == {i \in 1..Len(err) : err[i].field \in names}

\* C11: a record validator calls the nested Validate function of a
\* record-valued field once when the field is non-nil and not at all when
\* it is nil; a nil optional field adds no error, a nil required field adds
\* exactly one missing-field error and no nested error, and the errors of a
\* present nested record are all in the aggregate.
C11_NestedOncePerPresentField ==
    verr.run =>
        /\ \A f \in NestedFields(body) :
              /\ Cardinality(CallsFor(trace, f.field)) = IF f.p # NilP THEN 1 ELSE 0
              /\ \A i \in CallsFor(trace, f.field) :
                    /\ trace[i].target = f.p
                    /\ trace[i].validator = f.validator
              /\ f.p = NilP =>
                    Cardinality(ErrorsAbout(verr.err, {f.field})) = IF f.required THEN 1 ELSE 0
              /\ \A k \in 1..Len(Contribution(f)) :
                    \E i \in 1..Len(verr.err) : verr.err[i] = Contribution(f)[k]
        /\ \A i \in 1..Len(trace) :
              trace[i].op = "call" =>
                  /\ trace[i].target # NilP
                  /\ \E f \in NestedFields(body) : f.field = trace[i].field
        /\ body.typ = "MethodARequestBody" =>
              /\ verr.err = (IF body.Array = NilRef
                             THEN MissingFieldError("array", "body") ELSE NoError)
                            \o Contribution([field |-> "object", p |-> body.Object,
                                             required |-> TRUE,
                                             validator |-> "ValidateBPayloadRequestBody"])
                            \o Contribution([field |-> "dup_obj", p |-> body.DupObj,
                                             required |-> FALSE,
                                             validator |-> "ValidateBPayloadRequestBody"])
              /\ (body.Object = NilP /\ body.DupObj = NilP) =>
                    Cardinality(ErrorsAbout(verr.err, {"int"})) = 0

\* object is absent and dup_obj is present without its int: one call of the
\* nested validator, one missing-field error for object and the nested
\* error of dup_obj
C11_Witness ==
    /\ verr.run
    /\ body.typ = "MethodARequestBody"
    /\ body.Object = NilP
    /\ body.DupObj # NilP /\ body.DupObj.val.Int = NilP
    /\ body.Array # NilRef
    /\ Len(trace) = 1 /\ trace[1].field = "dup_obj"
    /\ verr.err = MissingFieldError("object", "body") \o MissingFieldError("int", "body")

(***************************************************************************)
(* Properties of the Validate functions on arbitrary bodies (SpecBody).    *)
(***************************************************************************)
\* no event of the trace dereferences a nil pointer or hands one to a
\* nested Validate function
NoNilTarget(tr) == \A i \in 1..Len(tr) : tr[i].target # NilP

\* err is nil or a list of validation errors
IsAggregate(err) ==
    \A i \in 1..Len(err) : err[i].name \in {"missing_field", "invalid_pattern"}

AllNil(b) ==
    IF b.typ = "MethodBRequestBody" THEN b.A = NilP /\ b.B = NilP /\ b.C = NilP
    ELSE IF b.typ = "MethodARequestBody"
    THEN /\ b.Any = NilP /\ b.Array = NilRef /\ b.Map = NilRef
         /\ b.Object = NilP /\ b.DupObj = NilP
    ELSE IF b.typ = "MethodARequestBodyMM" THEN b.A = NilP
    ELSE b.Body = NilP

\* C15: on every body, with any fields nil, each Validate function returns
\* an aggregate and dereferences a pointer field, or passes it to a nested
\* Validate function, only when the field is non-nil; so do the nested
\* Validate functions on every record they can be given.
C15_ValidatorsTotal ==
    /\ verr.run =>
          /\ NoNilTarget(trace)
          /\ IsAggregate(verr.err)
          /\ AllNil(body) => trace = <<>>
    /\ \A b \in APayloadRequestBodies :
          /\ NoNilTarget(TraceValidateAPayloadRequestBody(b))
          /\ IsAggregate(ValidateAPayloadRequestBody(b))
    /\ \A b \in BPayloadRequestBodies :
          /\ NoNilTarget(TraceValidateBPayloadRequestBody(b))
          /\ IsAggregate(ValidateBPayloadRequestBody(b))

\* ValidateMethodBRequestBody ran on the body with every field nil and
\* returned the two missing-field errors without a dereference
C15_Witness ==
    /\ verr.run
    /\ body.typ = "MethodBRequestBody"
    /\ AllNil(body)
    /\ trace = <<>>
    /\ verr.err = MissingFieldError("a", "body") \o MissingFieldError("c", "body")

(***************************************************************************)
(* Properties of the collections of a converted payload (SpecBody).        *)
(***************************************************************************)
\* the elements of the slice and the entries of the map a field refers to
SliceOf(st, ref) == IF ref = NilRef THEN <<>> ELSE st.slices[ref]
MapOf(st, ref) == IF ref = NilRef THEN {} ELSE st.maps[ref]

\* a step in which NewMethodAAPayload returns v
Converts == ~payload.built /\ payload'.built /\ ~payload'.panic

C12_Step ==
    body.typ = "MethodARequestBody" =>
        /\ Converts =>
              LET v == payload'.v
              IN  /\ v.Array # NilRef /\ v.Array # body.Array
                  /\ SliceOf(store', v.Array) = SliceOf(store, body.Array)
                  /\ SliceOf(store', body.Array) = SliceOf(store, body.Array)
                  /\ body.Map # NilRef => (v.Map # NilRef /\ v.Map # body.Map)
                  /\ MapOf(store', v.Map) = MapOf(store, body.Map)
                  /\ MapOf(store', body.Map) = MapOf(store, body.Map)
        /\ Converted =>
              LET v == payload.v
                  bodySame == /\ SliceOf(store', body.Array) = SliceOf(store, body.Array)
                              /\ MapOf(store', body.Map) = MapOf(store, body.Map)
                  payloadSame == /\ SliceOf(store', v.Array) = SliceOf(store, v.Array)
                                 /\ MapOf(store', v.Map) = MapOf(store, v.Map)
              IN  /\ payload' = payload /\ body' = body
                  /\ bodySame \/ payloadSame

\* C12: NewMethodAAPayload returns v with v.Array and v.Map holding the
\* elements and entries of body.Array and body.Map in collections of their
\* own, and from then on no assignment to an element or entry on one side
\* changes a collection of the other side.
C12_NoAliasing == [][C12_Step]_vars

\* after the conversion the body's array and map and the payload's array
\* and map were each assigned and all four differ pairwise as they should
C12_Witness ==
    /\ Converted
    /\ body.Array # NilRef /\ body.Map # NilRef
    /\ SliceOf(store, body.Array) = <<2, 1>>
    /\ SliceOf(store, payload.v.Array) = <<1, 2>>
    /\ MapOf(store, body.Map) = {}
    /\ MapOf(store, payload.v.Map) = {<<1, "y">>}

(***************************************************************************)
(* Properties of the generation of one service (SpecGen).                  *)
(***************************************************************************)
\* how often name occurs in the sequence of emitted names
Count(names, name) == Cardinality({i \in 1..Len(names) : names[i] = name})

\* C10: looking up the same structural key again returns the same name and
\* reports alreadyExists on the second and every later lookup (not on the
\* first), so each referenced user type gets exactly one record type and
\* one converter, one validator when it is validated as a request body and
\* none otherwise, and every referencing field has that type; for object
\* and dup_obj of MixedPayloadInBody this is BPayloadRequestBody with
\* ValidateBPayloadRequestBody, and every case of the test gets the code it
\* expects.
C10_DedupIdempotent ==
    /\ \A i, j \in 1..Len(gen.lookups) :
          (i < j /\ gen.lookups[i].key = gen.lookups[j].key) =>
              /\ gen.lookups[j].name = gen.lookups[i].name
              /\ gen.lookups[j].alreadyExists
    /\ \A j \in 1..Len(gen.lookups) :
          (\A i \in 1..(j - 1) : gen.lookups[i].key # gen.lookups[j].key)
              => ~gen.lookups[j].alreadyExists
    /\ \A j \in 1..Len(gen.lookups) :
          LET name == gen.lookups[j].name
              key == gen.lookups[j].key
          IN  /\ Count(gen.types, name) = 1
              /\ Count(gen.validators, "Validate" \o name) =
                    IF NeedsValidator(key[2], key[1] \in ValidatedTypes) THEN 1 ELSE 0
              /\ Count(gen.converters, ConverterName(design, design.fields[j], name)) = 1
              /\ <<design.fields[j].field, name>> \in gen.fields
    /\ (design = MixedPayloadInBodyDSL /\ step = 3) =>
          /\ gen.types = <<"MethodARequestBody", "BPayloadRequestBody">>
          /\ gen.validators = <<"ValidateMethodARequestBody", "ValidateBPayloadRequestBody">>
          /\ gen.converters =
                <<"unmarshalBPayloadRequestBodyToServicemixedpayloadinbodyBPayload">>
          /\ gen.fields = {<<"object", "BPayloadRequestBody">>,
                           <<"dup_obj", "BPayloadRequestBody">>}
    /\ tested.run => tested.pass

\* object and dup_obj were generated, the second lookup found the type and
\* the output is the expected code
C10_Witness ==
    /\ design = MixedPayloadInBodyDSL
    /\ tested.run /\ tested.pass
    /\ Len(gen.lookups) = 2
    /\ ~gen.lookups[1].alreadyExists
    /\ gen.lookups[2].alreadyExists

====
